---- MODULE Spec2Model ----
(***************************************************************************)
(* Job orchestration layer of srtgen (src/app.py): the live job table, the *)
(* cancellation flags, the slot counter guarded by active_threads_lock,    *)
(* the queue snapshot on disk, the history ledger, the request handlers    *)
(* and the execution units (one thread per job).                           *)
(*                                                                         *)
(* Granularity.  A request handler is one action.  An execution unit is a  *)
(* sequence of steps, one per lock section / cancellation checkpoint, so   *)
(* that handlers and other units interleave between them.  The pipeline    *)
(* calls (extract audio, whisper, NLLB) are opaque: each returns or        *)
(* raises.                                                                 *)
(***************************************************************************)
EXTENDS Integers, Sequences, FiniteSets, TLC

\* ---------------------------------------------------------------- bounds
MaxJobs == 3          \* submissions accepted in one behaviour
MaxJobsRestart == 2   \* submissions accepted in a behaviour that restarts
MaxCapacity == 2      \* largest MAX_CONCURRENT_JOBS configured
MaxSrt == 1           \* of them, SRT-translation submissions
MaxCancels == 1       \* cancellations that go through
MaxBumps == 1         \* bumps that reassign an id
MaxRaises == 1        \* pipeline runs that raise
MaxRestarts == 1      \* process restarts
MaxRequests == 3      \* request threads followed line by line
MaxSnapshotJobs == 2  \* jobs of a snapshot found at start-up
MaxBatch == 2         \* files named by one batch submission
MaxClears == 1        \* requests that clear the ledger, followed line by line
MaxPipelineJobs == 1  \* submissions whose pipeline is followed stage by stage
MaxFairJobs == 2      \* submissions in a behaviour with fair scheduling

\* ------------------------------------------------------ program constants
HistoryCap == 100          \* add_to_history: "Keep only last 100 entries"

VARIABLES
    MAX_CONCURRENT_JOBS,  \* app.config['MAX_CONCURRENT_JOBS'], the capacity
    jobs,              \* dict job_id -> job record
    job_counter,       \* next id handed out by a submission
    job_cancel_flags,  \* dict job_id -> bool
    active_threads,    \* slots in use
    job_history,       \* the ledger, a list
    jobs_file,         \* JOBS_FILE on disk: the queue snapshot
    threads,           \* execution units: job_id argument -> position
    thread_args,       \* execution units: job_id argument -> the other arguments
                       \* and locals
    requests,          \* request threads inside transcribe, and what they returned
    calls              \* what has happened so far, counted for the bounds

vars == <<MAX_CONCURRENT_JOBS, jobs, job_counter, job_cancel_flags, active_threads, job_history,
          jobs_file, threads, thread_args, requests, calls>>

Terminal == {"completed", "failed", "cancelled"}

\* d[k] = v  (dict assignment)
Put(d, k, v) == [x \in (DOMAIN d) \cup {k} |-> IF x = k THEN v ELSE d[x]]

\* del d[k]
Drop(d, k) == [x \in (DOMAIN d) \ {k} |-> d[x]]

\* jobs[k][field] = value on an existing record
SetStatus(js, k, s) == [js EXCEPT ![k].status = s]

\* jobs[k]['error'] = message: the key is new on a record that has not failed
SetError(js, k, message) == [js EXCEPT ![k] = Put(js[k], "error", message)]

\* job_cancel_flags.get(job_id, False)
Flag(k) == IF k \in DOMAIN job_cancel_flags THEN job_cancel_flags[k] ELSE FALSE

\* Ids a client can name in /api/jobs/<int:job_id>/...: the int converter of
\* the route matches non-negative numbers only.  job_counter stands for the
\* ids that are not in the table.
RequestIds == {k \in DOMAIN jobs : k >= 0} \cup {job_counter}

Count(what) == [calls EXCEPT ![what] = @ + 1]

\* JOBS_FILE before the first save: os.path.exists is False.
NoFile == [present |-> FALSE, truncated |-> FALSE, jobs |-> <<>>, job_counter |-> 0]

\* What a client sends to /api/transcribe besides the path, and the values
\* data.get falls back to when a key is left out (lines 581-585).
DefaultRequest ==
    [whisper_model |-> "medium", translation_model |-> "nllb-200-1.3B",
     translation_method |-> "whisper", chunk_length |-> 30, overwrite |-> TRUE]

Requests ==
    {DefaultRequest,
     [whisper_model |-> "large", translation_model |-> "nllb-200-3.3B",
      translation_method |-> "nllb", chunk_length |-> 20, overwrite |-> FALSE]}

\* The state after start-up with nothing on disk but a configuration.  The
\* capacity stays as configured: the settings handler is not part of the model.
Init ==
    /\ MAX_CONCURRENT_JOBS \in 1 .. MaxCapacity
    /\ jobs = <<>>
    /\ job_counter = 0
    /\ job_cancel_flags = <<>>
    /\ active_threads = 0
    /\ job_history = <<>>
    /\ jobs_file = NoFile
    /\ threads = <<>>
    /\ thread_args = <<>>
    /\ requests = <<>>
    /\ calls = [submit |-> 0, srt |-> 0, cancel |-> 0, bump |-> 0,
                raise |-> 0, restart |-> 0]

\* ------------------------------------------------------------ persistence

\* The ledger entry add_to_history builds from a job record.
HistoryEntry(job) == [id |-> job.id, file |-> job.file, status |-> job.status]

\* job_history.insert(0, entry); job_history = job_history[:100]
add_to_history(h, job) ==
    LET h2 == <<HistoryEntry(job)>> \o h
    IN  IF Len(h2) > HistoryCap THEN SubSeq(h2, 1, HistoryCap) ELSE h2

\* The document save_jobs_to_disk writes: the pending and running records
\* and the counter.
save_jobs_to_disk(js, counter) ==
    [present |-> TRUE,
     truncated |-> FALSE,
     jobs |-> [k \in {x \in DOMAIN js : js[x].status \in {"pending", "running"}} |->
                  [id |-> js[k].id, file |-> js[k].file, status |-> js[k].status,
                   progress |-> js[k].progress]],
     job_counter |-> counter]

\* ------------------------------------------------------- request handlers

\* POST /api/transcribe with a path that exists.  Every submission names a
\* file of its own: the file is numbered like the id the job is created with.
\* Submissions still allowed within the bounds.
MaySubmit ==
    calls.submit < (IF calls.restart > 0 THEN MaxJobsRestart ELSE MaxJobs)

\* The record lines 603-616 build.
new_job(job_id, file_path, data) ==
    [id |-> job_id, file |-> file_path, status |-> "pending", progress |-> 0,
     whisper_model |-> data.whisper_model,
     translation_model |-> data.translation_model,
     translation_method |-> data.translation_method,
     chunk_length |-> data.chunk_length,
     overwrite |-> data.overwrite]

transcribe(data) ==
    /\ MaySubmit
    /\ LET job_id == job_counter
           js == Put(jobs, job_id, new_job(job_id, job_id, data))
       IN  /\ job_counter' = job_counter + 1
           /\ jobs' = js
           /\ threads' = Put(threads, job_id, "start")
           /\ thread_args' = Put(thread_args, job_id, data)
           /\ jobs_file' = save_jobs_to_disk(js, job_counter + 1)
    /\ calls' = Count("submit")
    /\ UNCHANGED <<MAX_CONCURRENT_JOBS, requests, job_cancel_flags, active_threads, job_history>>

\* What a submission can name under MEDIA_FOLDER: a video, a path that does
\* not exist, a directory, a video whose target-language SRT exists; and the
\* request that names nothing.
MediaFiles ==
    {[rel_path |-> "a.mkv", exists |-> TRUE, is_file |-> TRUE, target_srt |-> FALSE],
     [rel_path |-> "gone.mkv", exists |-> FALSE, is_file |-> FALSE, target_srt |-> FALSE],
     [rel_path |-> "dir", exists |-> TRUE, is_file |-> FALSE, target_srt |-> FALSE],
     [rel_path |-> "done.mkv", exists |-> TRUE, is_file |-> TRUE, target_srt |-> TRUE]}

NoPath == [rel_path |-> "", exists |-> FALSE, is_file |-> FALSE, target_srt |-> FALSE]

\* Lines 587-593: the answer of POST /api/transcribe.
transcribe_code(file) ==
    IF file.rel_path = "" THEN 400
    ELSE IF ~file.exists THEN 404
    ELSE 200

\* POST /api/transcribe with any path: rejected (lines 587-593) or admitted
\* (lines 596-626).  The request is kept with its answer.
transcribe_587(file, data) ==
    /\ Len(requests) < MaxRequests
    /\ requests' = Append(requests, [pc |-> "returned", code |-> transcribe_code(file)])
    /\ IF transcribe_code(file) # 200
       THEN UNCHANGED <<jobs, job_counter, threads, thread_args, jobs_file, calls>>
       ELSE /\ MaySubmit
            /\ LET job_id == job_counter
                   js == Put(jobs, job_id, new_job(job_id, file.rel_path, data))
               IN  /\ job_counter' = job_counter + 1
                   /\ jobs' = js
                   /\ threads' = Put(threads, job_id, "start")
                   /\ thread_args' = Put(thread_args, job_id, data)
                   /\ jobs_file' = save_jobs_to_disk(js, job_counter + 1)
            /\ calls' = Count("submit")
    /\ UNCHANGED <<MAX_CONCURRENT_JOBS, job_cancel_flags, active_threads, job_history>>

\* video_files that skips a path that does not exist instead of answering 404.
RECURSIVE video_files_skipping_missing(_, _)
video_files_skipping_missing(file_paths, overwrite) ==
    IF file_paths = <<>> THEN [code |-> 200, files |-> <<>>]
    ELSE LET file == Head(file_paths)
             rest == video_files_skipping_missing(Tail(file_paths), overwrite)
         IN  IF ~file.exists THEN rest
             ELSE IF ~file.is_file THEN [code |-> 400, files |-> <<>>]
             ELSE IF rest.code # 200 THEN rest
             ELSE IF ~overwrite /\ file.target_srt THEN rest
             ELSE [code |-> 200, files |-> <<file>> \o rest.files]

\* Lines 647-670: the validation loop of the batch handler.  It answers at
\* the first path that does not exist (404) or is not a file (400), and
\* otherwise collects the files that are not skipped.
RECURSIVE video_files(_, _)
video_files(file_paths, overwrite) ==
    IF file_paths = <<>> THEN [code |-> 200, files |-> <<>>]
    ELSE LET file == Head(file_paths)
             rest == video_files(Tail(file_paths), overwrite)
         IN  IF ~file.exists THEN [code |-> 404, files |-> <<>>]
             ELSE IF ~file.is_file THEN [code |-> 400, files |-> <<>>]
             ELSE IF rest.code # 200 THEN rest
             ELSE IF ~overwrite /\ file.target_srt THEN rest
             ELSE [code |-> 200, files |-> <<file>> \o rest.files]

\* Lines 643-673: the answer of POST /api/transcribe/batch.
transcribe_batch_code(file_paths, overwrite) ==
    IF file_paths = <<>> THEN 400
    ELSE IF video_files(file_paths, overwrite).code # 200
         THEN video_files(file_paths, overwrite).code
    ELSE IF video_files(file_paths, overwrite).files = <<>> THEN 409
    ELSE 200

\* POST /api/transcribe/batch: rejected (lines 643-673), or one job and one
\* execution unit per collected file (lines 676-704) and one save (line 707).
transcribe_batch(file_paths, data) ==
    /\ Len(requests) < MaxRequests
    /\ requests' = Append(requests, [pc |-> "returned",
                                     code |-> transcribe_batch_code(file_paths, data.overwrite)])
    /\ IF transcribe_batch_code(file_paths, data.overwrite) # 200
       THEN UNCHANGED <<jobs, job_counter, threads, thread_args, jobs_file, calls>>
       ELSE LET vfs == video_files(file_paths, data.overwrite).files
                created == job_counter .. job_counter + Len(vfs) - 1
                js == [k \in DOMAIN jobs \cup created |->
                          IF k \in created
                          THEN new_job(k, vfs[k - job_counter + 1].rel_path, data)
                          ELSE jobs[k]]
            IN  /\ calls.submit + Len(vfs) <= MaxJobs
                /\ job_counter' = job_counter + Len(vfs)
                /\ jobs' = js
                /\ threads' = [k \in DOMAIN threads \cup created |->
                                  IF k \in created THEN "start" ELSE threads[k]]
                /\ thread_args' = [k \in DOMAIN thread_args \cup created |->
                                      IF k \in created THEN data ELSE thread_args[k]]
                /\ jobs_file' = save_jobs_to_disk(js, job_counter + Len(vfs))
                /\ calls' = [calls EXCEPT !.submit = @ + Len(vfs)]
    /\ UNCHANGED <<MAX_CONCURRENT_JOBS, job_cancel_flags, active_threads, job_history>>

\* The same handler followed line by line, for request threads that run
\* side by side (the server is threaded and the handler takes no lock).
\* Request thread r names file r.
\* Lines 578-596: a request thread checks the path and reads the counter.
transcribe_596(data) ==
    /\ Len(requests) < MaxRequests
    /\ requests' = Append(requests, [pc |-> "597", job_id |-> job_counter, data |-> data])
    /\ UNCHANGED <<MAX_CONCURRENT_JOBS, jobs, job_counter, job_cancel_flags, active_threads,
                   job_history, jobs_file, threads, thread_args, calls>>

\* Lines 597-626: it increments the counter, stores the record under the id
\* it read, starts the execution unit, saves the snapshot and answers.
transcribe_597(r) ==
    /\ requests[r].pc = "597"
    /\ LET job_id == requests[r].job_id
           data == requests[r].data
           js == Put(jobs, job_id, new_job(job_id, r, data))
       IN  /\ job_counter' = job_counter + 1
           /\ jobs' = js
           /\ threads' = Put(threads, job_id, "start")
           /\ thread_args' = Put(thread_args, job_id, data)
           /\ jobs_file' = save_jobs_to_disk(js, job_counter + 1)
    /\ requests' = [requests EXCEPT ![r].pc = "returned"]
    /\ UNCHANGED <<MAX_CONCURRENT_JOBS, job_cancel_flags, active_threads, job_history, calls>>

\* POST /api/translate-srt with an .srt path that exists.
translate_srt ==
    /\ MaySubmit
    /\ calls.srt < MaxSrt
    /\ LET job_id == job_counter
           translation_model == DefaultRequest.translation_model
           js == Put(jobs, job_id, [id |-> job_id, file |-> job_id,
                                    status |-> "pending", progress |-> 0,
                                    translation_model |-> translation_model])
       IN  /\ job_counter' = job_counter + 1
           /\ jobs' = js
           /\ jobs_file' = save_jobs_to_disk(js, job_counter + 1)
           /\ threads' = Put(threads, job_id, "srt_acquire")
           /\ thread_args' = Put(thread_args, job_id,
                                 [translation_model |-> translation_model])
    /\ calls' = [calls EXCEPT !.submit = @ + 1, !.srt = @ + 1]
    /\ UNCHANGED <<MAX_CONCURRENT_JOBS, requests, job_cancel_flags, active_threads, job_history>>

\* The status code cancel_job answers with.
cancel_job_code(job_id) ==
    IF job_id \notin DOMAIN jobs THEN 404
    ELSE IF jobs[job_id].status \in Terminal THEN 400
    ELSE 200

\* cancel_job that gives back the slot of the running job it cancels.
cancel_job_releasing(job_id) ==
    /\ IF cancel_job_code(job_id) # 200
       THEN UNCHANGED <<jobs, job_cancel_flags, job_history, jobs_file, calls, active_threads>>
       ELSE LET js == SetStatus(jobs, job_id, "cancelled")
            IN  /\ calls.cancel < MaxCancels
                /\ calls' = Count("cancel")
                /\ jobs' = js
                /\ job_cancel_flags' = Put(job_cancel_flags, job_id, TRUE)
                /\ job_history' = add_to_history(job_history, js[job_id])
                /\ IF jobs[job_id].status = "pending"
                   THEN UNCHANGED <<jobs_file, active_threads>>
                   ELSE /\ jobs_file' = save_jobs_to_disk(js, job_counter)
                        /\ active_threads' = active_threads - 1
    /\ UNCHANGED <<MAX_CONCURRENT_JOBS, thread_args, requests, job_counter, threads>>

\* POST /api/jobs/<job_id>/cancel
cancel_job(job_id) ==
    /\ IF cancel_job_code(job_id) # 200
       THEN UNCHANGED <<jobs, job_cancel_flags, job_history, jobs_file, calls>>
       ELSE LET js == SetStatus(jobs, job_id, "cancelled")
            IN  /\ calls.cancel < MaxCancels
                /\ calls' = Count("cancel")
                /\ jobs' = js
                /\ job_cancel_flags' = Put(job_cancel_flags, job_id, TRUE)
                /\ job_history' = add_to_history(job_history, js[job_id])
                /\ IF jobs[job_id].status = "pending"
                   THEN UNCHANGED jobs_file
                   ELSE jobs_file' = save_jobs_to_disk(js, job_counter)
    /\ UNCHANGED <<MAX_CONCURRENT_JOBS, thread_args, requests, job_counter, active_threads, threads>>

\* POST /api/history/clear (line 1191): job_history = []
clear_history ==
    /\ Len(requests) < MaxClears
    /\ job_history' = <<>>
    /\ requests' = Append(requests, [pc |-> "returned", status_filter |-> "all"])
    /\ UNCHANGED <<MAX_CONCURRENT_JOBS, jobs, job_counter, job_cancel_flags, active_threads,
                   jobs_file, threads, thread_args, calls>>

\* The status filters a client sends to /api/history/delete-filtered.
StatusFilters == {"all", "failed"}

\* POST /api/history/delete-filtered, lines 1203-1206, right-hand side: the
\* list that is kept is built by the request thread from the ledger it reads.
delete_filtered_history_1206(status_filter) ==
    /\ Len(requests) < MaxClears
    /\ requests' = Append(requests,
                       [pc |-> "1206", status_filter |-> status_filter,
                        kept |-> IF status_filter = "all" THEN <<>>
                                 ELSE SelectSeq(job_history,
                                                LAMBDA job : job.status # status_filter)])
    /\ UNCHANGED <<MAX_CONCURRENT_JOBS, jobs, job_counter, job_cancel_flags, active_threads,
                   job_history, jobs_file, threads, thread_args, calls>>

\* Lines 1204/1206, the assignment: the global name is bound to that list.
delete_filtered_history_1208(r) ==
    /\ requests[r].pc = "1206"
    /\ job_history' = requests[r].kept
    /\ requests' = [requests EXCEPT ![r].pc = "returned"]
    /\ UNCHANGED <<MAX_CONCURRENT_JOBS, jobs, job_counter, job_cancel_flags, active_threads,
                   jobs_file, threads, thread_args, calls>>

\* The other pending jobs bump_job looks at.
pending_jobs(job_id) ==
    {k \in DOMAIN jobs : jobs[k].status = "pending" /\ jobs[k].id # job_id}

\* min(j['id'] for j in pending_jobs)
min_job_id(job_id) ==
    CHOOSE m \in {jobs[k].id : k \in pending_jobs(job_id)} :
        \A k \in pending_jobs(job_id) : m <= jobs[k].id

\* bump_job_code letting a running job through.
bump_job_code_running_too(job_id) ==
    IF job_id \notin DOMAIN jobs THEN 404
    ELSE IF jobs[job_id].status \notin {"pending", "running"} THEN 400
    ELSE 200

\* The status code bump_job answers with.
bump_job_code(job_id) ==
    IF job_id \notin DOMAIN jobs THEN 404
    ELSE IF jobs[job_id].status # "pending" THEN 400
    ELSE 200

\* bump_jobs without job_data['id'] = new_job_id.
bump_jobs_id_kept(job_id, new_job_id) ==
    Put(Drop(jobs, job_id), new_job_id, jobs[job_id])

\* bump_jobs that writes the new id and leaves the record under its old key.
bump_jobs_key_kept(job_id, new_job_id) ==
    [jobs EXCEPT ![job_id].id = new_job_id]

\* The job table after a bump that goes through.
bump_jobs(job_id, new_job_id) ==
    Put(Drop(jobs, job_id), new_job_id, [jobs[job_id] EXCEPT !.id = new_job_id])

\* The cancel flags after a bump that goes through.
bump_flags(job_id, new_job_id) ==
    IF job_id \in DOMAIN job_cancel_flags
    THEN Drop(Put(job_cancel_flags, new_job_id, job_cancel_flags[job_id]), job_id)
    ELSE job_cancel_flags

\* POST /api/jobs/<job_id>/bump
bump_job(job_id) ==
    /\ IF bump_job_code(job_id) # 200 \/ pending_jobs(job_id) = {}
       THEN UNCHANGED <<jobs, job_cancel_flags, jobs_file, calls>>
       ELSE LET new_job_id == min_job_id(job_id) - 1
                js == bump_jobs(job_id, new_job_id)
            IN  /\ calls.bump < MaxBumps
                /\ calls' = Count("bump")
                /\ jobs' = js
                /\ job_cancel_flags' = bump_flags(job_id, new_job_id)
                /\ jobs_file' = save_jobs_to_disk(js, job_counter)
    /\ UNCHANGED <<MAX_CONCURRENT_JOBS, thread_args, requests, job_counter, active_threads, job_history, threads>>

\* ------------------------------------------- execution unit: transcription
\* threads[t] is the position of the unit started with job_id = t.  The unit
\* reaches its record as jobs[t] at every step; when the key is gone (the
\* job was bumped to another id) the access raises KeyError.

At(t, pc) == t \in DOMAIN threads /\ threads[t] = pc

Goto(t, pc) == threads' = [threads EXCEPT ![t] = pc]

\* run_transcription line 769: jobs[job_id]['status'] = 'pending'
T_start(t) ==
    /\ At(t, "start")
    /\ IF t \in DOMAIN jobs
       THEN jobs' = SetStatus(jobs, t, "pending") /\ Goto(t, "acquire")
       ELSE UNCHANGED jobs /\ Goto(t, "done")
    /\ UNCHANGED <<MAX_CONCURRENT_JOBS, thread_args, requests, job_counter, job_cancel_flags, active_threads, job_history,
                   jobs_file, calls>>

\* slot_free with the comparison off by one.
slot_free_off_by_one == active_threads <= MAX_CONCURRENT_JOBS

\* The admission decision of the waiting loop.
slot_free == active_threads < MAX_CONCURRENT_JOBS

\* lines 773-779: with active_threads_lock: take a slot if one is free.  The
\* counter is incremented before the record is touched, and the loop is
\* outside the try block: a KeyError ends the unit with the slot taken.
T_acquire(t) ==
    /\ At(t, "acquire")
    /\ IF slot_free
       THEN /\ active_threads' = active_threads + 1
            /\ IF t \in DOMAIN jobs
               THEN jobs' = SetStatus(jobs, t, "running") /\ Goto(t, "reset_flag")
               ELSE UNCHANGED jobs /\ Goto(t, "done")
       ELSE UNCHANGED <<active_threads, jobs>> /\ Goto(t, "poll")
    /\ UNCHANGED <<MAX_CONCURRENT_JOBS, thread_args, requests, job_counter, job_cancel_flags, job_history, jobs_file, calls>>

\* lines 782-794: the queue position is written into status_message (a
\* KeyError when the key is gone ends the unit); then the unit leaves the loop
\* when cancelled while waiting, else sleeps and polls again.
T_poll(t) ==
    /\ At(t, "poll")
    /\ IF t \notin DOMAIN jobs
       THEN UNCHANGED jobs /\ Goto(t, "done")
       ELSE IF Flag(t)
       THEN jobs' = SetStatus(jobs, t, "cancelled") /\ Goto(t, "done")
       ELSE UNCHANGED jobs /\ Goto(t, "acquire")
    /\ UNCHANGED <<MAX_CONCURRENT_JOBS, thread_args, requests, job_counter, job_cancel_flags, active_threads, job_history,
                   jobs_file, calls>>

\* queue_position without the term for the running jobs.
queue_position_waiting_only(job_id) ==
    Cardinality({k \in DOMAIN jobs : jobs[k].status = "pending" /\ jobs[k].id < job_id})

\* lines 783-785: the position the unit started with job_id computes.
queue_position(job_id) ==
    LET running_count == Cardinality({k \in DOMAIN jobs : jobs[k].status = "running"})
        waiting_jobs == {k \in DOMAIN jobs : jobs[k].status = "pending" /\ jobs[k].id < job_id}
        over == running_count - MAX_CONCURRENT_JOBS + 1
    IN  Cardinality(waiting_jobs) + (IF over > 0 THEN over ELSE 0)

\* The same poll with what line 786 writes kept on the record: of the
\* status_message 'In queue (position N)...' the number N, as the field
\* queue_position.
T_poll_786(t) ==
    /\ At(t, "poll")
    /\ IF t \notin DOMAIN jobs
       THEN UNCHANGED jobs /\ Goto(t, "done")
       ELSE LET js == [jobs EXCEPT ![t] = Put(@, "queue_position", queue_position(t))]
            IN  IF Flag(t)
                THEN jobs' = SetStatus(js, t, "cancelled") /\ Goto(t, "done")
                ELSE jobs' = js /\ Goto(t, "acquire")
    /\ UNCHANGED <<MAX_CONCURRENT_JOBS, thread_args, requests, job_counter, job_cancel_flags,
                   active_threads, job_history, jobs_file, calls>>

\* line 799: job_cancel_flags[job_id] = False
T_reset_flag(t) ==
    /\ At(t, "reset_flag")
    /\ job_cancel_flags' = Put(job_cancel_flags, t, FALSE)
    /\ Goto(t, "cp_811")
    /\ UNCHANGED <<MAX_CONCURRENT_JOBS, thread_args, requests, jobs, job_counter, active_threads, job_history, jobs_file, calls>>

\* The frame of a step that writes only the record and the position.
StageFrame ==
    UNCHANGED <<MAX_CONCURRENT_JOBS, thread_args, requests, job_counter, job_cancel_flags, active_threads, job_history,
                jobs_file, calls>>

\* Except that also stores the files generated before the failure.
Except_with_partial_result(t) ==
    /\ IF t \in DOMAIN jobs
       THEN LET js == [jobs EXCEPT ![t] = Put(Put([@ EXCEPT !.status = "failed"],
                                                 "error", "exception"),
                                             "generated_files", <<"srt">>)]
            IN  /\ jobs' = js
                /\ job_history' = add_to_history(job_history, js[t])
       ELSE UNCHANGED <<jobs, job_history>>
    /\ Goto(t, "release")
    /\ UNCHANGED <<MAX_CONCURRENT_JOBS, thread_args, requests, job_counter, job_cancel_flags, active_threads, jobs_file>>

\* Except without line 1054.
Except_without_error(t) ==
    /\ IF t \in DOMAIN jobs
       THEN LET js == SetStatus(jobs, t, "failed")
            IN  /\ jobs' = js
                /\ job_history' = add_to_history(job_history, js[t])
       ELSE UNCHANGED <<jobs, job_history>>
    /\ Goto(t, "release")
    /\ UNCHANGED <<MAX_CONCURRENT_JOBS, thread_args, requests, job_counter, job_cancel_flags, active_threads, jobs_file>>

\* lines 1039-1068: except Exception: status 'failed', error, add_to_history.
\* With the key gone the handler itself raises KeyError; finally still runs.
Except(t) ==
    /\ IF t \in DOMAIN jobs
       THEN LET js == SetError(SetStatus(jobs, t, "failed"), t, "exception")
            IN  /\ jobs' = js
                /\ job_history' = add_to_history(job_history, js[t])
       ELSE UNCHANGED <<jobs, job_history>>
    /\ Goto(t, "release")
    /\ UNCHANGED <<MAX_CONCURRENT_JOBS, thread_args, requests, job_counter, job_cancel_flags, active_threads, jobs_file>>

\* The except block entered on a KeyError of the unit's own.
Failed(t) == Except(t) /\ UNCHANGED calls

\* The except block entered because a pipeline call raised.
Raised(t) == Except(t) /\ calls' = Count("raise")

\* A cancellation checkpoint inside the try block (lines 811-813, 845-849,
\* 872-876, 943-947) reached with the flag set: status 'cancelled', return
\* through finally.
Cancelled(t) ==
    /\ Flag(t)
    /\ IF t \in DOMAIN jobs
       THEN /\ jobs' = SetStatus(jobs, t, "cancelled")
            /\ Goto(t, "release")
            /\ StageFrame
       ELSE Failed(t)

\* lines 811-818: the first checkpoint, always passed; the flag not set, the
\* pipeline starts (progress 10 is written: KeyError when the key is gone).
T_cp_811(t) ==
    /\ At(t, "cp_811")
    /\ \/ Cancelled(t)
       \/ /\ ~Flag(t)
          /\ IF t \in DOMAIN jobs
             THEN /\ jobs' = [jobs EXCEPT ![t].progress = 10]
                  /\ Goto(t, "run")
                  /\ StageFrame
             ELSE Failed(t)

\* lines 839-1011: the pipeline between its first checkpoint and its end.
\* Which of the later checkpoints (845, 872, 943) a run passes depends on the
\* files and the method; a run hits one of them with the flag set, ...
T_checkpoint(t) ==
    /\ At(t, "run")
    /\ Cancelled(t)

\* ... or one of its calls raises, ...
T_except(t) ==
    /\ At(t, "run")
    /\ calls.raise < MaxRaises
    /\ Raised(t)

\* ... or it reaches lines 1013-1037: status 'completed', add_to_history
\* (KeyError, handled by the except block, when the key is gone).
T_complete(t) ==
    /\ At(t, "run")
    /\ IF t \in DOMAIN jobs
       THEN LET js == [jobs EXCEPT ![t].status = "completed", ![t].progress = 100]
            IN  /\ jobs' = js
                /\ job_history' = add_to_history(job_history, js[t])
                /\ Goto(t, "release")
                /\ UNCHANGED <<MAX_CONCURRENT_JOBS, thread_args, requests, job_counter, job_cancel_flags,
                               active_threads, jobs_file, calls>>
       ELSE Failed(t)

\* ------------------------------------------- the pipeline, stage by stage
\* Lines 818-1025 followed through their branches, with every write of the
\* progress.  What the branches depend on is read where the code reads it:
\* the language argument, the files next to the video, the language whisper
\* detects.  The locals are kept in thread_args.

Methods == {"whisper", "nllb", "nllb-whisper", "nllb-llm"}

NllbMethods == {"nllb", "nllb-whisper", "nllb-llm"}

\* language.split('-')[0] of the language argument (line 821).
TargetLangs == {"en", "nl"}

\* result_original.get('language', 'unknown') (line 856).
DetectedLangs == {"en", "fr"}

\* What clients send when the method and the overwrite switch vary.
PipelineRequests ==
    {[DefaultRequest EXCEPT !.translation_method = m, !.overwrite = o] :
        m \in Methods, o \in BOOLEAN}

\* A step of the pipeline that writes the record, the locals and the position.
PipelineFrame ==
    UNCHANGED <<MAX_CONCURRENT_JOBS, requests, job_counter, job_cancel_flags, active_threads,
                job_history, jobs_file, calls>>

\* jobs[job_id]['progress'] = value, then on to the next stage.
Progress(t, value, pc) ==
    /\ jobs' = [jobs EXCEPT ![t].progress = value]
    /\ Goto(t, pc)

\* Lines 821-866: skip the transcription (progress 30, line 841) or pass
\* the checkpoint of line 845 and transcribe (progress 30, line 852).
T_839(t) ==
    /\ At(t, "run")
    /\ \E has_en_srt \in BOOLEAN, target_lang \in TargetLangs, language \in DetectedLangs :
          LET skip_initial_transcription ==
                  /\ has_en_srt
                  /\ thread_args[t].translation_method \in NllbMethods
                  /\ target_lang # "en"
              detected_lang == IF skip_initial_transcription THEN "en" ELSE language
              locals == [has_en_srt |-> has_en_srt, target_lang |-> target_lang,
                         detected_lang |-> detected_lang]
          IN  IF t \notin DOMAIN jobs THEN Failed(t)
              ELSE IF ~skip_initial_transcription /\ Flag(t) THEN Cancelled(t)
              ELSE /\ Progress(t, 30, "l869")
                   /\ thread_args' = [thread_args EXCEPT ![t] = Put(@, "locals", locals)]
                   /\ PipelineFrame

\* Lines 869-932: the English subtitles, when there are none and the source
\* is not English: checkpoint of line 872, progress 60 (line 878); an NLLB
\* method falls back to whisper when the original SRT is not there (882-884).
T_869(t) ==
    /\ At(t, "l869")
    /\ LET l == thread_args[t].locals
       IN  IF l.has_en_srt \/ l.detected_lang = "en"
           THEN UNCHANGED <<jobs, thread_args>> /\ Goto(t, "l935") /\ PipelineFrame
           ELSE IF t \notin DOMAIN jobs THEN Failed(t)
           ELSE IF Flag(t) THEN Cancelled(t)
           ELSE /\ Progress(t, 60, "l935")
                /\ \E srt_original_exists \in BOOLEAN :
                      thread_args' =
                          [thread_args EXCEPT ![t].translation_method =
                              IF @ \in NllbMethods /\ ~srt_original_exists
                              THEN "whisper" ELSE @]
                /\ PipelineFrame

\* Lines 935-952 and 984: the target language, when it is neither the
\* detected one nor English and its SRT is to be written: checkpoint of
\* line 943, then progress 75 on either branch of line 950.
T_935(t) ==
    /\ At(t, "l935")
    /\ LET l == thread_args[t].locals
       IN  IF l.target_lang \in {l.detected_lang, "en"}
           THEN UNCHANGED <<jobs, thread_args>> /\ Goto(t, "l1013") /\ PipelineFrame
           ELSE \E srt_target_exists \in BOOLEAN :
                  IF ~thread_args[t].overwrite /\ srt_target_exists
                  THEN UNCHANGED <<jobs, thread_args>> /\ Goto(t, "l1013") /\ PipelineFrame
                  ELSE IF t \notin DOMAIN jobs THEN Failed(t)
                  ELSE IF Flag(t) THEN Cancelled(t)
                  ELSE /\ Progress(t, 75,
                                   IF thread_args[t].translation_method
                                         \in {"nllb-whisper", "nllb-llm"}
                                   THEN "l972" ELSE "l987")
                       /\ UNCHANGED thread_args
                       /\ PipelineFrame

\* T_972 writing a progress below the one of line 952.
T_972_back_to_60(t) ==
    /\ At(t, "l972")
    /\ IF t \in DOMAIN jobs
       THEN Progress(t, 60, "l1013") /\ UNCHANGED thread_args /\ PipelineFrame
       ELSE Failed(t)

\* Line 972, hybrid branch: progress 85.
T_972(t) ==
    /\ At(t, "l972")
    /\ IF t \in DOMAIN jobs
       THEN Progress(t, 85, "l1013") /\ UNCHANGED thread_args /\ PipelineFrame
       ELSE Failed(t)

\* Line 987, pure NLLB or whisper branch: progress 80.
T_987(t) ==
    /\ At(t, "l987")
    /\ IF t \in DOMAIN jobs
       THEN Progress(t, 80, "l1013") /\ UNCHANGED thread_args /\ PipelineFrame
       ELSE Failed(t)

\* Line 1013: progress 90.
T_1013(t) ==
    /\ At(t, "l1013")
    /\ IF t \in DOMAIN jobs
       THEN Progress(t, 90, "l1020") /\ UNCHANGED thread_args /\ PipelineFrame
       ELSE Failed(t)

\* Lines 1020-1037: status 'completed', progress 100, the result (the list
\* generated_files, its content left out), add_to_history.  The calls after
\* line 1025 swallow their exceptions (lines 1028-1031, 149, 204).
T_1020(t) ==
    /\ At(t, "l1020")
    /\ IF t \in DOMAIN jobs
       THEN LET js == [jobs EXCEPT ![t] = Put([@ EXCEPT !.status = "completed",
                                                       !.progress = 100],
                                             "generated_files", <<"srt">>)]
            IN  /\ jobs' = js
                /\ job_history' = add_to_history(job_history, js[t])
                /\ Goto(t, "release")
                /\ UNCHANGED <<MAX_CONCURRENT_JOBS, thread_args, requests, job_counter,
                               job_cancel_flags, active_threads, jobs_file, calls>>
       ELSE Failed(t)

\* A call of the pipeline raises, at whatever stage.
T_raise(t) ==
    /\ t \in DOMAIN threads
    /\ threads[t] \in {"run", "l869", "l935", "l972", "l987"}
    /\ calls.raise < MaxRaises
    /\ Raised(t)

\* The end of the pipeline with add_to_history followed through its lines,
\* for units and handlers that change the ledger side by side (none of them
\* takes a lock).  Lines 1013-1025: the record is completed.
T_complete_1025(t) ==
    /\ At(t, "run")
    /\ IF t \in DOMAIN jobs
       THEN /\ jobs' = [jobs EXCEPT ![t].status = "completed", ![t].progress = 100]
            /\ Goto(t, "history_188")
            /\ UNCHANGED <<MAX_CONCURRENT_JOBS, thread_args, requests, job_counter, job_cancel_flags,
                           active_threads, job_history, jobs_file, calls>>
       ELSE Failed(t)

\* Lines 157-188: the entry is built and inserted at the front.
add_to_history_188(t) ==
    /\ At(t, "history_188")
    /\ job_history' = <<HistoryEntry(jobs[t])>> \o job_history
    /\ Goto(t, "history_191")
    /\ UNCHANGED <<MAX_CONCURRENT_JOBS, thread_args, requests, jobs, job_counter, job_cancel_flags,
                   active_threads, jobs_file, calls>>

\* Lines 191-192, right-hand side: the length is tested and the slice
\* job_history[:100] is built, as a list of the unit's own.
add_to_history_191(t) ==
    /\ At(t, "history_191")
    /\ IF Len(job_history) > HistoryCap
       THEN /\ thread_args' = [thread_args EXCEPT
                                  ![t] = Put(@, "slice", SubSeq(job_history, 1, HistoryCap))]
            /\ Goto(t, "history_192")
       ELSE UNCHANGED thread_args /\ Goto(t, "release")
    /\ UNCHANGED <<MAX_CONCURRENT_JOBS, requests, jobs, job_counter, job_cancel_flags,
                   active_threads, job_history, jobs_file, calls>>

\* Line 192, the assignment: the global name is bound to the slice.
add_to_history_192(t) ==
    /\ At(t, "history_192")
    /\ job_history' = thread_args[t].slice
    /\ Goto(t, "release")
    /\ UNCHANGED <<MAX_CONCURRENT_JOBS, thread_args, requests, jobs, job_counter, job_cancel_flags,
                   active_threads, jobs_file, calls>>

\* T_release without the decrement.
T_release_keeping_slot(t) ==
    /\ At(t, "release")
    /\ Goto(t, "save")
    /\ UNCHANGED <<MAX_CONCURRENT_JOBS, thread_args, requests, jobs, job_counter, job_cancel_flags, active_threads, job_history, jobs_file, calls>>

\* lines 1077-1079: finally: with active_threads_lock: active_threads -= 1
T_release(t) ==
    /\ At(t, "release")
    /\ active_threads' = active_threads - 1
    /\ Goto(t, "save")
    /\ UNCHANGED <<MAX_CONCURRENT_JOBS, thread_args, requests, jobs, job_counter, job_cancel_flags, job_history, jobs_file, calls>>

\* line 1089: save_jobs_to_disk() at the end of finally.
T_save(t) ==
    /\ At(t, "save")
    /\ jobs_file' = save_jobs_to_disk(jobs, job_counter)
    /\ Goto(t, "done")
    /\ UNCHANGED <<MAX_CONCURRENT_JOBS, thread_args, requests, jobs, job_counter, job_cancel_flags, active_threads,
                   job_history, calls>>

\* The same save followed through its lines, for a process that may stop
\* inside it.  Lines 226-240: jobs_to_save is built, then open(JOBS_FILE, 'w')
\* empties the file.
T_save_240(t) ==
    /\ At(t, "save")
    /\ thread_args' = [thread_args EXCEPT
                          ![t] = Put(@, "jobs_to_save", save_jobs_to_disk(jobs, job_counter).jobs)]
    /\ jobs_file' = [present |-> TRUE, truncated |-> TRUE, jobs |-> <<>>, job_counter |-> 0]
    /\ Goto(t, "save_241")
    /\ UNCHANGED <<MAX_CONCURRENT_JOBS, requests, jobs, job_counter, job_cancel_flags,
                   active_threads, job_history, calls>>

\* Lines 241-244: json.dump writes the document, with the counter as it is
\* at that moment.
T_save_241(t) ==
    /\ At(t, "save_241")
    /\ jobs_file' = [present |-> TRUE, truncated |-> FALSE,
                     jobs |-> thread_args[t].jobs_to_save, job_counter |-> job_counter]
    /\ Goto(t, "done")
    /\ UNCHANGED <<MAX_CONCURRENT_JOBS, thread_args, requests, jobs, job_counter,
                   job_cancel_flags, active_threads, job_history, calls>>

\* ----------------------------------------- execution unit: SRT translation

\* S_acquire without the test of line 1266.
S_acquire_unguarded(t) ==
    /\ At(t, "srt_acquire")
    /\ active_threads' = active_threads + 1
    /\ Goto(t, "srt_run")
    /\ UNCHANGED <<MAX_CONCURRENT_JOBS, thread_args, requests, jobs, job_counter, job_cancel_flags, job_history, jobs_file, calls>>

\* run_srt_translation lines 1264-1270: wait for a slot (no cancel check).
\* While no slot is free the loop sleeps and changes nothing.
S_acquire(t) ==
    /\ At(t, "srt_acquire")
    /\ slot_free
    /\ active_threads' = active_threads + 1
    /\ Goto(t, "srt_run")
    /\ UNCHANGED <<MAX_CONCURRENT_JOBS, thread_args, requests, jobs, job_counter, job_cancel_flags, job_history, jobs_file, calls>>

\* lines 1272-1291: status 'processing', progress 10, then 30, then the call
\* mkv_transcribe.translate_srt_content.  app.py imports mkv_transcribe only
\* inside run_transcription (line 797), so the name is unbound here and the
\* call raises NameError every time.
S_run(t) ==
    /\ At(t, "srt_run")
    /\ IF t \in DOMAIN jobs
       THEN jobs' = [jobs EXCEPT ![t].status = "processing", ![t].progress = 30]
       ELSE UNCHANGED jobs
    /\ Goto(t, "srt_except")
    /\ StageFrame

\* lines 1311-1319: status 'failed', job_history.append(copy of the record).
S_except(t) ==
    /\ At(t, "srt_except")
    /\ IF t \in DOMAIN jobs
       THEN LET js == SetError(SetStatus(jobs, t, "failed"), t, "exception")
            IN  /\ jobs' = js
                /\ job_history' = Append(job_history, HistoryEntry(js[t]))
       ELSE UNCHANGED <<jobs, job_history>>
    /\ Goto(t, "srt_release")
    /\ UNCHANGED <<MAX_CONCURRENT_JOBS, thread_args, requests, job_counter, job_cancel_flags, active_threads, jobs_file, calls>>

\* lines 1321-1323: finally: active_threads -= 1
S_release(t) ==
    /\ At(t, "srt_release")
    /\ active_threads' = active_threads - 1
    /\ Goto(t, "srt_save")
    /\ UNCHANGED <<MAX_CONCURRENT_JOBS, thread_args, requests, jobs, job_counter, job_cancel_flags, job_history, jobs_file, calls>>

\* line 1326: save_jobs_to_disk()
S_save(t) ==
    /\ At(t, "srt_save")
    /\ jobs_file' = save_jobs_to_disk(jobs, job_counter)
    /\ Goto(t, "done")
    /\ UNCHANGED <<MAX_CONCURRENT_JOBS, thread_args, requests, jobs, job_counter, job_cancel_flags, active_threads,
                   job_history, calls>>

\* ----------------------------------------------------------------- restart
\* The process stops (every execution unit with it) and starts again: the
\* module globals are fresh and load_jobs_from_disk rebuilds the table from
\* the snapshot.  load_history_from_disk reads back the ledger, which every
\* change of job_history has written to HISTORY_FILE.

\* d.get(k, default)
Get(d, k, default) == IF k \in DOMAIN d THEN d[k] ELSE default

\* Lines 253-261: whether JOBS_FILE exists and json.load returns its document.
\* When it does not, the function returns (or its except block prints) and
\* the globals stay as the module created them.
readable == jobs_file.present /\ ~jobs_file.truncated

saved_jobs == IF readable THEN jobs_file.jobs ELSE <<>>

\* recovered without line 280.
recovered_progress_kept(job_data, gone) ==
    IF job_data.status \in {"completed", "failed"} THEN job_data
    ELSE LET reset == IF job_data.status = "running"
                      THEN [job_data EXCEPT !.status = "pending"]
                      ELSE job_data
         IN  IF gone
             THEN Put([reset EXCEPT !.status = "failed"], "error",
                      "File not found after restart")
             ELSE reset

\* The record load_jobs_from_disk keeps for a snapshot job; gone is whether
\* its file no longer exists.
recovered(job_data, gone) ==
    IF job_data.status \in {"completed", "failed"} THEN job_data
    ELSE LET reset == IF job_data.status = "running"
                      THEN [job_data EXCEPT !.status = "pending", !.progress = 0]
                      ELSE job_data
         IN  IF gone
             THEN Put([reset EXCEPT !.status = "failed"], "error",
                      "File not found after restart")
             ELSE reset

\* The table after load_jobs_from_disk; missing is the set of files that
\* are gone.
load_jobs_from_disk(missing) ==
    [k \in {x \in DOMAIN saved_jobs : saved_jobs[x].status # "cancelled"} |->
        recovered(saved_jobs[k], saved_jobs[k].file \in missing)]

\* restarted without the test of line 292.
restarted_all(missing) ==
    {k \in DOMAIN saved_jobs : saved_jobs[k].status \in {"pending", "running"}}

\* The snapshot jobs a thread is started for (lines 292-306).
restarted(missing) ==
    {k \in DOMAIN saved_jobs :
        /\ saved_jobs[k].status \in {"pending", "running"}
        /\ saved_jobs[k].file \notin missing}

\* Lines 294-298: the arguments of the thread, from the snapshot record.
recovered_args(job_data) ==
    [whisper_model |-> Get(job_data, "whisper_model", "medium"),
     translation_model |-> Get(job_data, "translation_model", "nllb-200-1.3B"),
     translation_method |-> Get(job_data, "translation_method", "whisper"),
     chunk_length |-> Get(job_data, "chunk_length", 30),
     overwrite |-> Get(job_data, "overwrite", TRUE)]

\* A request thread whose response has been sent; the others die with the
\* process.
returned(request) == request.pc = "returned"

Restart(missing) ==
    /\ calls.restart < MaxRestarts
    /\ calls.submit <= MaxJobsRestart
    /\ calls' = Count("restart")
    /\ jobs' = load_jobs_from_disk(missing)
    /\ threads' = [k \in restarted(missing) |-> "start"]
    /\ thread_args' = [k \in restarted(missing) |-> recovered_args(saved_jobs[k])]
    /\ job_counter' = IF readable THEN jobs_file.job_counter ELSE 0
    /\ job_cancel_flags' = <<>>
    /\ active_threads' = 0
    /\ requests' = SelectSeq(requests, returned)
    /\ UNCHANGED <<MAX_CONCURRENT_JOBS, job_history, jobs_file>>

\* The files whose absence a restart may find: none, or one of the snapshot.
MissingChoices == {{}} \cup {{jobs_file.jobs[k].file} : k \in DOMAIN jobs_file.jobs}

\* ------------------------------------------------------------ specification

\* The steps of the execution units.
Units ==
    \/ \E t \in DOMAIN threads : T_start(t)
    \/ \E t \in DOMAIN threads : T_acquire(t)
    \/ \E t \in DOMAIN threads : T_poll(t)
    \/ \E t \in DOMAIN threads : T_reset_flag(t)
    \/ \E t \in DOMAIN threads : T_cp_811(t)
    \/ \E t \in DOMAIN threads : T_checkpoint(t)
    \/ \E t \in DOMAIN threads : T_except(t)
    \/ \E t \in DOMAIN threads : T_complete(t)
    \/ \E t \in DOMAIN threads : T_release(t)
    \/ \E t \in DOMAIN threads : T_save(t)
    \/ \E t \in DOMAIN threads : S_acquire(t)
    \/ \E t \in DOMAIN threads : S_run(t)
    \/ \E t \in DOMAIN threads : S_except(t)
    \/ \E t \in DOMAIN threads : S_release(t)
    \/ \E t \in DOMAIN threads : S_save(t)

Next ==
    \/ transcribe(DefaultRequest)
    \/ translate_srt
    \/ \E job_id \in RequestIds : cancel_job(job_id)
    \/ \E job_id \in RequestIds : bump_job(job_id)
    \/ Units
    \/ \E missing \in MissingChoices : Restart(missing)

Spec == Init /\ [][Next]_vars

\* The state after start-up when an earlier run of the process finished
\* HistoryCap - 1 transcription jobs: load_history_from_disk reads their
\* entries (newest first), load_jobs_from_disk an empty snapshot with the
\* counter.
LedgerOnDisk ==
    [i \in 1 .. HistoryCap - 1 |->
        [id |-> HistoryCap - 1 - i, file |-> HistoryCap - 1 - i, status |-> "completed"]]

InitLedger ==
    /\ MAX_CONCURRENT_JOBS \in 1 .. MaxCapacity
    /\ jobs = <<>>
    /\ job_counter = HistoryCap - 1
    /\ job_cancel_flags = <<>>
    /\ active_threads = 0
    /\ job_history = LedgerOnDisk
    /\ jobs_file = save_jobs_to_disk(<<>>, HistoryCap - 1)
    /\ threads = <<>>
    /\ thread_args = <<>>
    /\ requests = <<>>
    /\ calls = [submit |-> 0, srt |-> 0, cancel |-> 0, bump |-> 0,
                raise |-> 0, restart |-> 0]

\* One run of the process on that ledger: submissions, cancellations and the
\* execution units.
NextLedger ==
    \/ transcribe(DefaultRequest)
    \/ translate_srt
    \/ \E job_id \in RequestIds : cancel_job(job_id)
    \/ Units

SpecLedger == InitLedger /\ [][NextLedger]_vars

\* Jobs that complete side by side on that ledger while clients clear it,
\* with every change of the ledger followed line by line.
NextHistory ==
    \/ transcribe(DefaultRequest)
    \/ clear_history
    \/ \E status_filter \in StatusFilters : delete_filtered_history_1206(status_filter)
    \/ \E r \in DOMAIN requests : delete_filtered_history_1208(r)
    \/ \E t \in DOMAIN threads : T_start(t)
    \/ \E t \in DOMAIN threads : T_acquire(t)
    \/ \E t \in DOMAIN threads : T_poll(t)
    \/ \E t \in DOMAIN threads : T_reset_flag(t)
    \/ \E t \in DOMAIN threads : T_cp_811(t)
    \/ \E t \in DOMAIN threads : T_complete_1025(t)
    \/ \E t \in DOMAIN threads : add_to_history_188(t)
    \/ \E t \in DOMAIN threads : add_to_history_191(t)
    \/ \E t \in DOMAIN threads : add_to_history_192(t)
    \/ \E t \in DOMAIN threads : T_release(t)
    \/ \E t \in DOMAIN threads : T_save(t)

SpecHistory == InitLedger /\ [][NextHistory]_vars

\* The waiting loop of lines 772-794.
T_wait(t) == T_acquire(t) \/ T_poll(t)

\* Transcription jobs whose pipeline is followed stage by stage, with
\* cancellations and a restart.
NextPipeline ==
    \/ \E data \in PipelineRequests : calls.submit < MaxPipelineJobs /\ transcribe(data)
    \/ \E job_id \in RequestIds : cancel_job(job_id)
    \/ \E missing \in MissingChoices : Restart(missing)
    \/ \E t \in DOMAIN threads : T_start(t)
    \/ \E t \in DOMAIN threads : T_wait(t)
    \/ \E t \in DOMAIN threads : T_reset_flag(t)
    \/ \E t \in DOMAIN threads : T_cp_811(t)
    \/ \E t \in DOMAIN threads : T_839(t)
    \/ \E t \in DOMAIN threads : T_869(t)
    \/ \E t \in DOMAIN threads : T_935(t)
    \/ \E t \in DOMAIN threads : T_972(t)
    \/ \E t \in DOMAIN threads : T_987(t)
    \/ \E t \in DOMAIN threads : T_1013(t)
    \/ \E t \in DOMAIN threads : T_1020(t)
    \/ \E t \in DOMAIN threads : T_raise(t)
    \/ \E t \in DOMAIN threads : T_release(t)
    \/ \E t \in DOMAIN threads : T_save(t)

SpecPipeline == Init /\ [][NextPipeline]_vars

\* load_jobs_from_disk on the snapshots it can find.  JOBS_FILE is read as
\* found in the configuration directory: its jobs may be in any of the
\* states the function tells apart, with any progress.
SnapshotJobs ==
    [id : 0 .. MaxSnapshotJobs - 1, file : 0 .. MaxSnapshotJobs - 1,
     status : {"pending", "running", "cancelled"}, progress : {0, 10}]

Snapshots ==
    {[present |-> TRUE, truncated |-> FALSE, jobs |-> js, job_counter |-> MaxSnapshotJobs] :
        js \in {f \in UNION {[ids -> SnapshotJobs] : ids \in SUBSET (0 .. MaxSnapshotJobs - 1)} :
                    \A k \in DOMAIN f : f[k].id = k /\ f[k].file = k}}

InitRecover ==
    /\ MAX_CONCURRENT_JOBS \in 1 .. MaxCapacity
    /\ jobs = <<>>
    /\ job_counter = 0
    /\ job_cancel_flags = <<>>
    /\ active_threads = 0
    /\ job_history = <<>>
    /\ jobs_file \in Snapshots
    /\ threads = <<>>
    /\ thread_args = <<>>
    /\ requests = <<>>
    /\ calls = [submit |-> 0, srt |-> 0, cancel |-> 0, bump |-> 0,
                raise |-> 0, restart |-> 0]

NextRecover == \E missing \in MissingChoices : Restart(missing)

SpecRecover == InitRecover /\ [][NextRecover]_vars

\* Submissions with the parameters a client may send, cancellations, and a
\* restart.
NextParams ==
    \/ \E data \in Requests : transcribe(data)
    \/ \E job_id \in RequestIds : cancel_job(job_id)
    \/ \E missing \in MissingChoices : Restart(missing)

SpecParams == Init /\ [][NextParams]_vars

\* Transcription jobs whose final save is followed through its lines, and a
\* process that stops at any point and starts again.
NextCrash ==
    \/ transcribe(DefaultRequest)
    \/ \E t \in DOMAIN threads : T_start(t)
    \/ \E t \in DOMAIN threads : T_acquire(t)
    \/ \E t \in DOMAIN threads : T_poll(t)
    \/ \E t \in DOMAIN threads : T_reset_flag(t)
    \/ \E t \in DOMAIN threads : T_cp_811(t)
    \/ \E t \in DOMAIN threads : T_except(t)
    \/ \E t \in DOMAIN threads : T_complete(t)
    \/ \E t \in DOMAIN threads : T_release(t)
    \/ \E t \in DOMAIN threads : T_save_240(t)
    \/ \E t \in DOMAIN threads : T_save_241(t)
    \/ \E missing \in MissingChoices : Restart(missing)

SpecCrash == Init /\ [][NextCrash]_vars

\* Transcription jobs queueing for the slots, with the position each waiting
\* unit reports, and cancellations.
NextQueue ==
    \/ transcribe(DefaultRequest)
    \/ \E job_id \in RequestIds : cancel_job(job_id)
    \/ \E t \in DOMAIN threads : T_start(t)
    \/ \E t \in DOMAIN threads : T_acquire(t)
    \/ \E t \in DOMAIN threads : T_poll_786(t)
    \/ \E t \in DOMAIN threads : T_reset_flag(t)
    \/ \E t \in DOMAIN threads : T_cp_811(t)
    \/ \E t \in DOMAIN threads : T_checkpoint(t)
    \/ \E t \in DOMAIN threads : T_complete(t)
    \/ \E t \in DOMAIN threads : T_release(t)
    \/ \E t \in DOMAIN threads : T_save(t)

SpecQueue == Init /\ [][NextQueue]_vars

\* One process run without bumps, every execution unit scheduled fairly:
\* a unit that can take a step eventually takes one.  A pipeline call is a
\* step, so every pipeline call returns, with a result or an error.
NextFair ==
    \/ calls.submit < MaxFairJobs /\ transcribe(DefaultRequest)
    \/ calls.submit < MaxFairJobs /\ translate_srt
    \/ \E job_id \in RequestIds : cancel_job(job_id)
    \/ Units

\* A step of the execution unit started with job id t.
UnitStep(t) ==
    \/ T_start(t) \/ T_acquire(t) \/ T_poll(t) \/ T_reset_flag(t) \/ T_cp_811(t)
    \/ T_checkpoint(t) \/ T_except(t) \/ T_complete(t) \/ T_release(t) \/ T_save(t)
    \/ S_acquire(t) \/ S_run(t) \/ S_except(t) \/ S_release(t) \/ S_save(t)

SpecFair ==
    /\ Init
    /\ [][NextFair]_vars
    /\ \A t \in 0 .. MaxFairJobs : WF_vars(UnitStep(t))

\* The batches a client can send.
Batches ==
    UNION {[1 .. n -> MediaFiles] : n \in 0 .. MaxBatch}

\* Admission: single and batch submissions, rejected or admitted.
NextAdmit ==
    \/ \E file \in MediaFiles \cup {NoPath}, data \in Requests : transcribe_587(file, data)
    \/ \E file_paths \in Batches, data \in Requests : transcribe_batch(file_paths, data)

SpecAdmit == Init /\ [][NextAdmit]_vars

\* Submissions handled by request threads side by side, and a restart.
NextSubmit ==
    \/ \E data \in Requests : transcribe_596(data)
    \/ \E r \in DOMAIN requests : transcribe_597(r)
    \/ \E missing \in MissingChoices : Restart(missing)

SpecSubmit == Init /\ [][NextSubmit]_vars

\* ------------------------------------------------------------------ claims

\* The records in state 'running'.
Running == {k \in DOMAIN jobs : jobs[k].status = "running"}

\* A bump of job_id that goes through and reassigns the id.
BumpReassigns(job_id) ==
    /\ bump_job(job_id)
    /\ job_id \in DOMAIN jobs
    /\ jobs[job_id].status = "pending"
    /\ pending_jobs(job_id) # {}

\* A unit that found no free slot and sleeps in the waiting loop.
Sleeping(t) == t \in DOMAIN threads /\ threads[t] = "poll"

\* C1: in every reachable state, restarts included, at most
\* MAX_CONCURRENT_JOBS job records are 'running'.
C1_RunningWithinCapacity == Cardinality(Running) <= MAX_CONCURRENT_JOBS

\* After a restart: the capacity is used up by recovered jobs while another
\* job waits.
C1_Witness ==
    /\ calls.restart > 0
    /\ Cardinality(Running) = MAX_CONCURRENT_JOBS
    /\ \E k \in DOMAIN jobs : jobs[k].status = "pending" /\ Sleeping(k)

\* C2: a job cancelled while pending (its unit still in the waiting loop) is
\* not 'running' after the next step, and that step does not take a slot
\* for it.
C2_CancelledPendingNeverRuns ==
    [][\A t \in DOMAIN threads :
          (/\ t \in DOMAIN jobs
           /\ jobs[t].status = "cancelled"
           /\ threads[t] \in {"start", "acquire", "poll"}
           /\ calls'.restart = calls.restart)
          => /\ jobs'[t].status # "running"
             /\ ~(threads'[t] # threads[t] /\ active_threads' = active_threads + 1)]_vars

\* C3: a record that is 'completed', 'failed' or 'cancelled' keeps its state
\* in every step of a handler or an execution unit.
C3_TerminalNeverChanges ==
    [][\A k \in DOMAIN jobs :
          (/\ jobs[k].status \in Terminal
           /\ calls'.restart = calls.restart
           /\ k \in DOMAIN jobs'
           /\ jobs'[k].file = jobs[k].file)
          => jobs'[k].status = jobs[k].status]_vars

\* C4: the ledger holds at most one entry for a job (a job is told by its
\* file: every submission names a file of its own).
C4_OneEntryPerJob ==
    \A i, j \in DOMAIN job_history :
        i # j => job_history[i].file # job_history[j].file

\* C5: the ledger never holds more than HistoryCap entries.
C5_LedgerWithinCap == Len(job_history) <= HistoryCap

\* C6: whenever the ledger changes, the new entry is its first element, the
\* old entries follow in their order, and only the last of them is dropped
\* beyond HistoryCap.
C6_NewestFirst ==
    [][job_history' # job_history =>
          /\ job_history' # <<>>
          /\ LET h2 == <<Head(job_history')>> \o job_history
             IN  job_history' = SubSeq(h2, 1, IF Len(h2) > HistoryCap
                                              THEN HistoryCap ELSE Len(h2))]_vars

\* C7: when a unit is granted a slot, no pending job with a smaller id is
\* asleep in the waiting loop.
C7_GrantsInIdOrder ==
    [][\A t \in DOMAIN threads :
          (/\ threads[t] = "acquire"
           /\ t \in DOMAIN threads'
           /\ threads'[t] = "reset_flag"
           /\ t \in DOMAIN jobs)
          => ~\E k \in DOMAIN jobs :
                 /\ jobs[k].status = "pending"
                 /\ Sleeping(k)
                 /\ jobs[k].id < jobs[t].id]_vars

\* C8: a bump that reassigns the id of pending job J leaves J pending under
\* the smallest id the other pending jobs had, minus one: below the id of
\* every other pending job.
C8_BumpedIsFirst ==
    [][\A job_id \in RequestIds :
          BumpReassigns(job_id) =>
              \E n \in DOMAIN jobs' :
                  /\ jobs'[n].file = jobs[job_id].file
                  /\ jobs'[n].status = "pending"
                  /\ jobs'[n].id = n
                  /\ \E m \in pending_jobs(job_id) :
                         /\ n = jobs[m].id - 1
                         /\ \A o \in pending_jobs(job_id) : jobs[m].id <= jobs[o].id
                  /\ \A o \in DOMAIN jobs' \ {n} :
                         jobs'[o].status = "pending" => n < jobs'[o].id]_vars

\* A bump has moved a pending job in front of another pending job.
C8_Witness ==
    /\ calls.bump > 0
    /\ \E n, m \in DOMAIN jobs :
           /\ n # m
           /\ jobs[n].status = "pending" /\ jobs[m].status = "pending"
           /\ jobs[n].file # n
           /\ n < m /\ jobs[n].file > jobs[m].file

\* C9: a bump of an unknown id or of a job that is not pending answers with
\* an error and changes neither the table, the ids, the flags, the slot
\* counter nor the snapshot.
C9_RejectedBumpChangesNothing ==
    [][\A job_id \in RequestIds :
          (/\ bump_job(job_id)
           /\ (job_id \notin DOMAIN jobs \/ jobs[job_id].status # "pending"))
          => /\ bump_job_code(job_id) \in {400, 404}
             /\ UNCHANGED <<jobs, job_cancel_flags, active_threads, jobs_file>>]_vars

\* A running job that a client can name while other jobs are pending: the
\* bump of it is rejected, and this is the state it leaves.
C9_Witness ==
    \E job_id \in RequestIds :
        /\ job_id \in DOMAIN jobs
        /\ jobs[job_id].status = "running"
        /\ pending_jobs(job_id) # {}
        /\ bump_job_code(job_id) = 400

\* C10: a bump that reassigns an id leaves every other record of the table
\* as it was.
C10_BumpKeepsOtherJobs ==
    [][\A job_id \in RequestIds :
          BumpReassigns(job_id) =>
              \A m \in DOMAIN jobs \ {job_id} :
                  m \in DOMAIN jobs' /\ jobs'[m] = jobs[m]]_vars

\* C11: no two submissions are answered with the same job id, whether their
\* request threads ran side by side or a restart lay between them.
C11_IdsNeverReused ==
    \A i, j \in DOMAIN requests :
        (i # j /\ returned(requests[i]) /\ returned(requests[j]))
            => requests[i].job_id # requests[j].job_id

\* C12 as stated: after load_jobs_from_disk every snapshot job that was
\* 'running' is in the table as 'pending' with progress 0, every one that
\* was 'pending' is in the table as 'pending', and every one that was
\* 'cancelled' is absent and has no execution unit.
C12_Recovery ==
    [][\A missing \in MissingChoices :
          Restart(missing) =>
              \A k \in DOMAIN saved_jobs :
                  /\ saved_jobs[k].status = "running" =>
                         /\ k \in DOMAIN jobs'
                         /\ jobs'[k].status = "pending"
                         /\ jobs'[k].progress = 0
                  /\ saved_jobs[k].status = "pending" =>
                         /\ k \in DOMAIN jobs'
                         /\ jobs'[k].status = "pending"
                  /\ saved_jobs[k].status = "cancelled" =>
                         /\ k \notin DOMAIN jobs'
                         /\ k \notin DOMAIN threads']_vars

\* C12, for the snapshot jobs whose file still exists: after
\* load_jobs_from_disk a job that was 'running' is 'pending' with progress
\* 0 and a job that was 'pending' is 'pending', both with the same id and
\* file; a job that was 'cancelled' is absent and no unit is started for it,
\* whether its file exists or not.
C12_RecoveryOfExistingFiles ==
    [][\A missing \in MissingChoices :
          Restart(missing) =>
              \A k \in DOMAIN saved_jobs :
                  /\ (saved_jobs[k].status = "running" /\ saved_jobs[k].file \notin missing) =>
                         /\ k \in DOMAIN jobs'
                         /\ jobs'[k].status = "pending"
                         /\ jobs'[k].progress = 0
                         /\ jobs'[k].id = k /\ jobs'[k].file = saved_jobs[k].file
                  /\ (saved_jobs[k].status = "pending" /\ saved_jobs[k].file \notin missing) =>
                         /\ k \in DOMAIN jobs'
                         /\ jobs'[k].status = "pending"
                         /\ jobs'[k].id = k /\ jobs'[k].file = saved_jobs[k].file
                  /\ saved_jobs[k].status = "cancelled" =>
                         /\ k \notin DOMAIN jobs'
                         /\ k \notin DOMAIN threads']_vars

\* After start-up on a snapshot with a job that was running at progress 10
\* and a cancelled job: the first is pending at progress 0, the second gone.
C12_Witness ==
    /\ calls.restart > 0
    /\ \E k, c \in DOMAIN saved_jobs :
           /\ saved_jobs[k].status = "running"
           /\ saved_jobs[k].progress = 10
           /\ k \in DOMAIN jobs
           /\ jobs[k].status = "pending"
           /\ jobs[k].progress = 0
           /\ saved_jobs[c].status = "cancelled"
           /\ c \notin DOMAIN jobs
           /\ c \notin DOMAIN threads

\* C13: a job that cancel_job has cancelled (its record 'cancelled', its flag
\* set) is not resumed by a restart: after load_jobs_from_disk the table
\* holds no pending or running record of it and no unit is started for it.
C13_CancelSurvivesRestart ==
    [][calls'.restart = calls.restart + 1 =>
          \A k \in DOMAIN jobs :
              (jobs[k].status = "cancelled" /\ Flag(k)) =>
                  \A n \in DOMAIN jobs' :
                      jobs'[n].file = jobs[k].file =>
                          /\ jobs'[n].status \notin {"pending", "running"}
                          /\ n \notin DOMAIN threads']_vars

\* A record that load_jobs_from_disk has set to 'failed' for its missing file.
FailedAtRecovery(job) ==
    /\ job.status = "failed"
    /\ "error" \in DOMAIN job
    /\ job.error = "File not found after restart"

C15_ParametersSurviveRestart ==
    [][calls'.restart = calls.restart + 1 =>
          \A k \in DOMAIN threads' :
              (k \in DOMAIN jobs /\ jobs[k].file = jobs'[k].file) =>
                  \A p \in DOMAIN DefaultRequest : thread_args'[k][p] = jobs[k][p]]_vars

\* C16: whenever the process starts, the JOBS_FILE it reads is a complete
\* snapshot (the one before or the one after the save that was under way),
\* never an empty or partial document.
C16_SnapshotNeverTorn ==
    [][calls'.restart = calls.restart + 1 => ~jobs_file.truncated]_vars

\* No execution unit is between a change of a job's state and the save that
\* follows it (request handlers are single steps).
Quiescent ==
    \A t \in DOMAIN threads :
        threads[t] \notin {"release", "save", "srt_run", "srt_except", "srt_release", "srt_save"}

\* C17: in a quiescent state the ids of the snapshot on disk are the ids of
\* the pending and running jobs of the table, and the persisted counter is
\* job_counter.
C17_SnapshotInSync ==
    Quiescent =>
        /\ DOMAIN jobs_file.jobs = {k \in DOMAIN jobs : jobs[k].status \in {"pending", "running"}}
        /\ jobs_file.job_counter = job_counter

\* A unit that has incremented active_threads and has not yet decremented it
\* on its way out.
HoldsSlot(t) ==
    threads[t] \in {"reset_flag", "cp_811", "run", "release",
                    "srt_run", "srt_except", "srt_release"}

\* C18: the slot counter is the number of units between their acquisition
\* and their release: a unit that has ended, on whatever path, has given
\* back the slot it took, and a unit that took none has given back none.
C18_AcquireReleasePaired ==
    active_threads = Cardinality({t \in DOMAIN threads : HoldsSlot(t)})

\* C19: a second cancellation of a job that cancel_job has cancelled (its
\* record 'cancelled', its flag set) is answered without an error.
C19_CancelIdempotent ==
    \A job_id \in RequestIds :
        (/\ job_id \in DOMAIN jobs
         /\ jobs[job_id].status = "cancelled"
         /\ Flag(job_id))
        => cancel_job_code(job_id) = 200

\* C20: a cancellation of an unknown id, or of a job that is completed,
\* failed or cancelled, is answered without an error.
C20_CancelOfFinishedIsNoOp ==
    \A job_id \in RequestIds :
        (job_id \notin DOMAIN jobs \/ jobs[job_id].status \in Terminal)
            => cancel_job_code(job_id) \notin {400, 404}

\* The pending jobs whose id is smaller than that of job J.
PendingBefore(J) ==
    {k \in DOMAIN jobs : jobs[k].status = "pending" /\ jobs[k].id < jobs[J].id}

\* C21: the position a waiting unit reports at a poll is the number of
\* pending jobs with a smaller id plus max(0, running jobs - capacity + 1);
\* with capacity 1 and one job running that is 2 behind one pending job and
\* 1 behind none.
C21_QueuePosition ==
    [][\A t \in DOMAIN threads :
          (T_poll_786(t) /\ t \in DOMAIN jobs) =>
              LET P == Cardinality(PendingBefore(t))
                  R == Cardinality(Running)
              IN  /\ jobs'[t].queue_position
                        = P + (IF R - MAX_CONCURRENT_JOBS + 1 > 0
                               THEN R - MAX_CONCURRENT_JOBS + 1 ELSE 0)
                  /\ (MAX_CONCURRENT_JOBS = 1 /\ R = 1 /\ P = 1) => jobs'[t].queue_position = 2
                  /\ (MAX_CONCURRENT_JOBS = 1 /\ R = 1 /\ P = 0) => jobs'[t].queue_position = 1]_vars

\* Capacity 1, A running, B cancelled while pending, C pending behind them:
\* C, which reported position 2 while B was pending, has now reported 1.
C21_Witness ==
    /\ MAX_CONCURRENT_JOBS = 1
    /\ \E A, B, C \in DOMAIN jobs :
           /\ A < B /\ B < C
           /\ jobs[A].status = "running"
           /\ jobs[B].status = "cancelled"
           /\ "queue_position" \in DOMAIN jobs[B] /\ jobs[B].queue_position = 1
           /\ jobs[C].status = "pending"
           /\ "queue_position" \in DOMAIN jobs[C] /\ jobs[C].queue_position = 1
           /\ threads[C] = "acquire"

\* What a rejected submission must leave alone: the job table, the counter,
\* the snapshot and the execution units.
NoJobCreated == UNCHANGED <<jobs, job_counter, jobs_file, threads, thread_args>>

\* The batches the specification says are rejected: no file named, a file
\* missing or not a file, or nothing left to process.
RejectedBatch(file_paths, data) ==
    \/ file_paths = <<>>
    \/ \E i \in DOMAIN file_paths : ~file_paths[i].exists \/ ~file_paths[i].is_file
    \/ \A i \in DOMAIN file_paths : ~data.overwrite /\ file_paths[i].target_srt

\* C22: a submission rejected at admission (no path, file not found, a batch
\* file missing or not a file, a batch with nothing to process) creates no
\* job: table, counter, snapshot and execution units stay as they were, also
\* for the batch files validated before the failing one.
C22_RejectedCreatesNothing ==
    [][/\ \A file \in MediaFiles \cup {NoPath}, data \in Requests :
             ((file.rel_path = "" \/ ~file.exists) /\ transcribe_587(file, data))
                 => NoJobCreated
       /\ \A file_paths \in Batches, data \in Requests :
             (RejectedBatch(file_paths, data) /\ transcribe_batch(file_paths, data))
                 => NoJobCreated]_vars

\* Submissions answered 400, 404 and 409 next to one that was admitted.
C22_Witness ==
    /\ jobs # <<>>
    /\ \E r \in DOMAIN requests : requests[r].code = 404
    /\ \E r \in DOMAIN requests : requests[r].code \in {400, 409}
    /\ Cardinality(DOMAIN jobs) = Cardinality({r \in DOMAIN requests : requests[r].code = 200})

\* The positions of a unit after its try block: finally, and the end.
Leaving == {"release", "save", "done"}

\* The step is not a restart of the process.
SameProcess == calls'.restart = calls.restart

\* C23: when a pipeline call of a running job raises, the record under the
\* unit's job id becomes 'failed' with the error recorded, the unit goes on
\* to give back its slot (its next step decrements the counter by one), and
\* within the process run it never returns to the pipeline: no retry.
C23_FailureIsFinal ==
    [][\A t \in DOMAIN threads :
          /\ (T_except(t) /\ t \in DOMAIN jobs) =>
                 /\ jobs'[t].status = "failed"
                 /\ "error" \in DOMAIN jobs'[t]
                 /\ threads'[t] = "release"
          /\ (SameProcess /\ threads[t] = "release" /\ threads'[t] # "release") =>
                 /\ active_threads' = active_threads - 1
                 /\ threads'[t] = "save"
          /\ (SameProcess /\ threads[t] \in Leaving) => threads'[t] \in Leaving]_vars

\* A job whose pipeline raised: 'failed' with the error, its unit ended, no
\* slot held any more.
C23_Witness ==
    /\ calls.raise = 1
    /\ calls.restart = 0
    /\ active_threads = 0
    /\ \E t \in DOMAIN threads :
           /\ threads[t] = "done"
           /\ t \in DOMAIN jobs
           /\ jobs[t].status = "failed"
           /\ "error" \in DOMAIN jobs[t]

\* C24: a cancel flag that is set is never set back to false, by any
\* component.
C24_FlagNeverCleared ==
    [][\A k \in DOMAIN job_cancel_flags :
          (job_cancel_flags[k] /\ k \in DOMAIN job_cancel_flags') => job_cancel_flags'[k]]_vars

\* C25: the state of every record, SRT-translation jobs included, is one of
\* pending, running, completed, failed, cancelled.
C25_StatusVocabulary ==
    \A k \in DOMAIN jobs :
        jobs[k].status \in {"pending", "running", "completed", "failed", "cancelled"}

\* C26: a cancel request leaves the slot counter as it is, also for a running
\* job; the counter goes down only by one, in the release step of a unit on
\* its way out (or to zero when the process restarts).
C26_CancelKeepsSlot ==
    [][/\ \A job_id \in RequestIds : cancel_job(job_id) => active_threads' = active_threads
       /\ (SameProcess /\ active_threads' < active_threads) =>
              /\ active_threads' = active_threads - 1
              /\ \E t \in DOMAIN threads : T_release(t) \/ S_release(t)]_vars

\* All slots taken, one of them by a job that was cancelled while running and
\* whose unit has not reached a checkpoint yet, and another job waiting.
C26_Witness ==
    /\ active_threads = MAX_CONCURRENT_JOBS
    /\ \E t \in DOMAIN threads :
           /\ threads[t] = "run"
           /\ t \in DOMAIN jobs
           /\ jobs[t].status = "cancelled"
           /\ Flag(t)
    /\ \E u \in DOMAIN threads :
           /\ threads[u] = "poll"
           /\ u \in DOMAIN jobs
           /\ jobs[u].status = "pending"

\* The entries of a ledger.
Entries(h) == {h[i] : i \in DOMAIN h}

\* The entry is beyond the cap of the ledger.
Evicted(entry) ==
    \E i \in DOMAIN job_history : i > HistoryCap /\ job_history[i] = entry

\* The step completes a clear request that removes the entry.
Cleared(entry) ==
    \/ clear_history
    \/ \E r \in DOMAIN requests :
          /\ delete_filtered_history_1208(r)
          /\ requests[r].status_filter \in {"all", entry.status}

\* C27: an entry leaves the ledger only when it is evicted by the cap or
\* removed by a clear, however the inserts, truncations and clears of
\* different threads interleave.
C27_NoLostEntry ==
    [][\A entry \in Entries(job_history) :
          entry \notin Entries(job_history') => Evicted(entry) \/ Cleared(entry)]_vars

\* C28: while a process runs, the progress of a job record stays within
\* 0 .. 100 and never goes down, on every branch of the pipeline; it goes
\* down only at start-up, to 0, for a job that recovery resumes from the
\* snapshot.
C28_ProgressMonotone ==
    [][\A k \in DOMAIN jobs \cap DOMAIN jobs' :
          jobs'[k].file = jobs[k].file =>
              /\ jobs'[k].progress \in 0 .. 100
              /\ SameProcess => jobs'[k].progress >= jobs[k].progress
              /\ jobs'[k].progress < jobs[k].progress =>
                     /\ k \in DOMAIN saved_jobs
                     /\ jobs'[k].progress = 0]_vars

\* A job that had completed (its entry is in the ledger) when the process
\* stopped before the last save: recovery has reset its progress to 0, and
\* its new run has climbed through 10, 30, 60 and 75 to 80.
C28_Witness ==
    /\ calls.restart = 1
    /\ \E t \in DOMAIN threads :
           /\ threads[t] = "l1013"
           /\ jobs[t].progress = 80
           /\ ~thread_args[t].locals.has_en_srt
           /\ thread_args[t].locals.detected_lang = "fr"
           /\ \E i \in DOMAIN job_history :
                  /\ job_history[i].file = jobs[t].file
                  /\ job_history[i].status = "completed"

\* The record carries a result / a failure reason.
HasResult(job) == "generated_files" \in DOMAIN job

HasError(job) == "error" \in DOMAIN job

\* C29: no record carries both a result and a failure reason; a result is
\* only on a 'completed' record, a failure reason only on a 'failed' one,
\* and each is written on a record that does not have it yet.
C29_ResultXorError ==
    [][/\ \A k \in DOMAIN jobs' :
             /\ ~(HasResult(jobs'[k]) /\ HasError(jobs'[k]))
             /\ HasResult(jobs'[k]) => jobs'[k].status = "completed"
             /\ HasError(jobs'[k]) => jobs'[k].status = "failed"
       /\ \A t \in DOMAIN threads \cap DOMAIN jobs :
             /\ T_1020(t) => ~HasResult(jobs[t])
             /\ T_raise(t) => ~HasError(jobs[t])]_vars

\* A job that failed in one process run and, resumed after a restart,
\* completed in the next: its record carries the result and no error.
C29_Witness ==
    /\ calls.raise = 1
    /\ calls.restart = 1
    /\ \E k \in DOMAIN jobs :
           /\ jobs[k].status = "completed"
           /\ HasResult(jobs[k])
           /\ ~HasError(jobs[k])
           /\ \E i \in DOMAIN job_history :
                  job_history[i].file = jobs[k].file /\ job_history[i].status = "failed"

\* C30: after a bump the execution unit of the job works on the record under
\* its new id: every pending record is the one a unit that has not ended
\* addresses, so that the job can still get a slot and come to an end.
C30_BumpedJobIsServed ==
    \A k \in DOMAIN jobs :
        jobs[k].status = "pending" => k \in DOMAIN threads /\ threads[k] # "done"

\* C32: the slot counter is never negative and never above the capacity,
\* however transcription and SRT-translation units interleave.
C32_SlotCounterInRange ==
    0 <= active_threads /\ active_threads <= MAX_CONCURRENT_JOBS

\* Every slot of a capacity of two is taken, one by a transcription unit in
\* its pipeline and one by an SRT-translation unit.
C32_Witness ==
    /\ MAX_CONCURRENT_JOBS = 2
    /\ active_threads = 2
    /\ \E t \in DOMAIN threads : threads[t] = "run"
    /\ \E t \in DOMAIN threads : threads[t] = "srt_run"

\* C33: every key of the job table is the id of the record stored under it.
C33_KeyIsId ==
    \A k \in DOMAIN jobs : jobs[k].id = k

\* A job that was bumped to a negative id, saved, and recovered by a
\* restart under that id.
C33_Witness ==
    /\ calls.bump = 1
    /\ calls.restart = 1
    /\ \E k \in DOMAIN jobs : k < 0 /\ jobs[k].id = k /\ jobs[k].status = "pending"

\* Every job of the table is in a terminal state and no slot is taken.
Settled ==
    /\ \A k \in DOMAIN jobs : jobs[k].status \in Terminal
    /\ active_threads = 0

\* C31: with a fixed capacity, no bumps, returning pipeline calls and fair
\* scheduling, every behaviour comes to a point from which on every
\* submitted job is completed, failed or cancelled and the slot counter is 0.
C31_AllJobsEnd == <>[]Settled

\* Two jobs have ended, one cancelled and one completed, every unit has
\* ended and the counter is back at 0.
C31_Witness ==
    /\ Settled
    /\ \A t \in DOMAIN threads : threads[t] = "done"
    /\ \E k \in DOMAIN jobs : jobs[k].status = "cancelled"
    /\ \E k \in DOMAIN jobs : jobs[k].status = "completed"

====
